---- MODULE Spec2Model ----
(***************************************************************************)
(* tg-shop-ai: the order fulfilment core (users, products, orders, order   *)
(* items) over the SQLAlchemy session of app/db/database.py.               *)
(*                                                                         *)
(* The four tables hold the COMMITTED rows.  Every call (upsert_user,      *)
(* create_order_for_user, the two list queries, the admin POST) runs in a   *)
(* session of its own:                                                     *)
(* rows it has flushed but not committed live in loc[p] and reach the      *)
(* tables only at its commit; closing the session without a commit drops   *)
(* them (rollback).  Each SQL statement of a call is one step, so calls of *)
(* different processes interleave between statements.                      *)
(***************************************************************************)
EXTENDS Integers, FiniteSets, Sequences, TLC

VARIABLES
    users, products, orders, order_items,   \* the committed rows of the four tables
    lock,       \* the session holding the store's write lock (0: none)
    pc,         \* per call slot: the statement the call is about to run
    args,       \* per call slot: the arguments of the running call
    loc,        \* per call slot: the objects of its session
    ret,        \* per call slot: what its last call returned or raised
    ncalls, nedits,
    serial,     \* TRUE when calls never overlap (one bot process, whose handlers run to completion)
    prev,       \* under serial: the call that returned last
    schema      \* the tables and indexes that exist in the store

vars == <<users, products, orders, order_items, lock, pc, args, loc, ret, ncalls, nedits, serial, prev, schema>>

tables == <<users, products, orders, order_items>>

counters == <<ncalls, nedits>>

mode == <<serial, prev, schema>>

\* the fields of the rows and records of this module, in the order in which
\* the records list them, each with the table or record it belongs to
FieldOf ==
    [args |-> "prev", op |-> "args", id |-> "row", tg_id |-> "users", username |-> "users", user_id |-> "orders",
     order_id |-> "order_items", product_id |-> "order_items",
     user |-> "loc", product |-> "loc", order |-> "loc", item |-> "loc",
     sku |-> "products", qty |-> "order_items", checked |-> "loc", ddl |-> "loc",
     price_str |-> "args", price_cents |-> "products", is_active |-> "products", limit |-> "args",
     status |-> "orders", at |-> "ret", value |-> "ret", again |-> "prev",
     total_cents |-> "orders", valid |-> "price_str", milli |-> "price_str"]

----------------------------------------------------------------------------
(* Bounds of the model. *)

\* calls started in one behaviour
MaxCalls == 2

\* edits of existing products in one behaviour
MaxEdits == 1

\* largest quantity a caller passes
MaxQty == 2

\* concurrent callers (bot process, web process)
Procs == {1, 2}

TgIds == {41, 42}

\* Python None / SQL NULL
Null == "NULL"

Usernames == {Null, "", "ann"}

\* SKU-001 is a product of the demo catalogue, SKU-006 is not
Skus == {"SKU-001", "SKU-006"}

\* a negative quantity, zero, the quantity the bot passes and the largest one
Qtys == {-5, 0, 1, MaxQty}

\* the limits the callers pass to the two list queries
Limits == {1, 3}

\* a price typed into the admin form: unparsable text, or a decimal number of
\* roubles given in thousandths (499000 is "499.00", 25 is "0.025")
BadPrice == [valid |-> FALSE, milli |-> 0]

Dec(m) == [valid |-> TRUE, milli |-> m]

PriceStrs == {BadPrice, Dec(-10), Dec(25)}

\* prices the admin collaborator may set on an existing product
EditPrices == {59900}

----------------------------------------------------------------------------
(* Rows and lookups. *)

\* the absent row (Python None as the result of one_or_none)
NoRow == [id |-> 0]

NoLoc == [user |-> NoRow, product |-> NoRow, order |-> NoRow, item |-> NoRow, qty |-> 0, checked |-> 0, ddl |-> <<>>]

NoRet == [op |-> "none", status |-> "none", at |-> "none", value |-> NoRow]

\* autoincrement integer primary key: the next id is the largest id plus one
NextId(T) == IF T = {} THEN 1 ELSE 1 + (CHOOSE m \in {r.id : r \in T} : \A r \in T : r.id <= m)

\* Query.one_or_none(): the row, None, or MultipleResultsFound
OneOrNone(S) == IF S = {} THEN NoRow ELSE IF Cardinality(S) = 1 THEN CHOOSE r \in S : TRUE ELSE [id |-> -1]

\* seed_products(): the demo catalogue, is_active by its server default
DemoProducts ==
    { [id |-> 1, sku |-> "SKU-001", price_cents |-> 49900, is_active |-> TRUE],
      [id |-> 2, sku |-> "SKU-002", price_cents |-> 129900, is_active |-> TRUE],
      [id |-> 3, sku |-> "SKU-003", price_cents |-> 29900, is_active |-> TRUE],
      [id |-> 4, sku |-> "SKU-004", price_cents |-> 349900, is_active |-> TRUE],
      [id |-> 5, sku |-> "SKU-005", price_cents |-> 89900, is_active |-> TRUE] }

\* the lookup filters on the wrong column (id instead of tg_id)
UserByTg_byId(tg) == OneOrNone({u \in users : u.id = tg})

\* the lookup without its filter, taking the first row
UserByTg_first(tg) == IF users = {} THEN NoRow ELSE CHOOSE u \in users : \A v \in users : u.id <= v.id

UserByTg(tg) == OneOrNone({u \in users : u.tg_id = tg})

\* the product as the process read it when it started, not as the store has it
ActiveProductBySku_cached(sku) == OneOrNone({d \in DemoProducts : d.sku = sku})

\* the lookup without its is_active filter
ActiveProductBySku_any(sku) == OneOrNone({q \in products : q.sku = sku})

ActiveProductBySku(sku) == OneOrNone({q \in products : q.sku = sku /\ q.is_active})

ProductBySku(sku) == OneOrNone({q \in products : q.sku = sku})

\* the test `if username` left out
Truthy_always(s) == TRUE

\* Python truthiness of `username`: None and "" are false
Truthy(s) == s \notin {Null, ""}

\* ORDER BY id
RECURSIVE OrderById(_)
OrderById(S) ==
    IF S = {} THEN <<>>
    ELSE LET r == CHOOSE x \in S : \A y \in S : x.id <= y.id IN <<r>> \o OrderById(S \ {r})

\* ORDER BY id DESC taken for ORDER BY id
OrderByIdDesc_asc(S) == OrderById(S)

\* ORDER BY id DESC
RECURSIVE OrderByIdDesc(_)
OrderByIdDesc(S) ==
    IF S = {} THEN <<>>
    ELSE LET r == CHOOSE x \in S : \A y \in S : x.id >= y.id IN <<r>> \o OrderByIdDesc(S \ {r})

\* the query without its LIMIT
Limit_none(rows, n) == rows

\* LIMIT n, n a count of rows
Limit(rows, n) == SubSeq(rows, 1, IF n < Len(rows) THEN n ELSE Len(rows))

RECURSIVE SumLines(_)
SumLines(S) == IF S = {} THEN 0 ELSE LET i == CHOOSE x \in S : TRUE IN i.qty * i.price_cents + SumLines(S \ {i})

----------------------------------------------------------------------------
\* Base.metadata: the four tables in the order of their foreign keys
TableNames == <<"users", "products", "orders", "order_items">>

\* the indexes declared with index=True, created after their table
IndexesOf(t) ==
    CASE t = "users" -> <<"ix_users_tg_id">>
      [] t = "products" -> <<"ix_products_sku">>
      [] t = "orders" -> <<"ix_orders_user_id">>
      [] t = "order_items" -> <<"ix_order_items_order_id", "ix_order_items_product_id">>

\* everything create_all() creates
SchemaObjects ==
    UNION {{TableNames[k]} \cup {IndexesOf(TableNames[k])[j] : j \in 1 .. Len(IndexesOf(TableNames[k]))} : k \in 1 .. Len(TableNames)}

NoPrev == [args |-> NoRow, status |-> "none", value |-> NoRow, again |-> FALSE]

\* the store after init_db(), with or without the seeded demo catalogue
Start ==
    /\ users = {}
    /\ products \in {{}, DemoProducts}
    /\ orders = {}
    /\ order_items = {}
    /\ lock = 0
    /\ pc = [p \in Procs |-> "idle"]
    /\ args = [p \in Procs |-> NoRow]
    /\ loc = [p \in Procs |-> NoLoc]
    /\ ret = [p \in Procs |-> NoRet]
    /\ ncalls = 0
    /\ nedits = 0
    /\ prev = NoPrev
    /\ schema = SchemaObjects

\* callers in several processes (bot and web): their calls interleave
Init == Start /\ serial = FALSE

\* one bot process: its handlers call the repositories one at a time
InitSerial == Start /\ serial = TRUE

\* the processes start on a store file that has no tables yet, or has them all
InitBoot ==
    /\ users = {} /\ products = {} /\ orders = {} /\ order_items = {}
    /\ lock = 0
    /\ pc = [p \in Procs |-> "idle"]
    /\ args = [p \in Procs |-> NoRow]
    /\ loc = [p \in Procs |-> NoLoc]
    /\ ret = [p \in Procs |-> NoRet]
    /\ ncalls = 0
    /\ nedits = 0
    /\ prev = NoPrev
    /\ serial = FALSE
    /\ schema \in {{}, SchemaObjects}

\* a store that has served earlier calls: two registered users (one of them
\* with a tg_id that places no call here), each with one committed order of
\* SKU-001, and the demo catalogue
InitStocked ==
    /\ users = {[id |-> 1, tg_id |-> 41, username |-> "ann"], [id |-> 2, tg_id |-> 40, username |-> Null]}
    /\ products = DemoProducts
    /\ orders = {[id |-> 1, user_id |-> 1, status |-> "new", total_cents |-> 49900],
                 [id |-> 2, user_id |-> 2, status |-> "new", total_cents |-> 99800]}
    /\ order_items = {[id |-> 1, order_id |-> 1, product_id |-> 1, qty |-> 1, price_cents |-> 49900],
                      [id |-> 2, order_id |-> 2, product_id |-> 1, qty |-> 2, price_cents |-> 49900]}
    /\ lock = 0
    /\ pc = [p \in Procs |-> "idle"]
    /\ args = [p \in Procs |-> NoRow]
    /\ loc = [p \in Procs |-> NoLoc]
    /\ ret = [p \in Procs |-> NoRet]
    /\ ncalls = 0
    /\ nedits = 0
    /\ prev = NoPrev
    /\ serial = FALSE
    /\ schema = SchemaObjects

\* the call ends without closing its session
Return_leaveOpen(p, status, value) ==
    /\ pc' = [pc EXCEPT ![p] = "idle"]
    /\ ret' = [ret EXCEPT ![p] = [op |-> args[p].op, status |-> status, at |-> pc[p], value |-> value]]
    /\ args' = [args EXCEPT ![p] = NoRow]
    /\ UNCHANGED <<loc, lock, prev, counters, serial, schema>>

\* the call of p ends: `finally: session.close()` drops what was not committed
\* and releases the write lock; the caller receives status (the row, or the
\* exception raised at statement pc[p]) and value
Return(p, status, value) ==
    /\ pc' = [pc EXCEPT ![p] = "idle"]
    /\ ret' = [ret EXCEPT ![p] = [op |-> args[p].op, status |-> status, at |-> pc[p], value |-> value]]
    /\ args' = [args EXCEPT ![p] = NoRow]
    /\ loc' = [loc EXCEPT ![p] = NoLoc]
    /\ lock' = IF lock = p THEN 0 ELSE lock
    /\ prev' = IF serial
              THEN [args |-> args[p], status |-> status, value |-> value,
                    again |-> prev.status = "ok" /\ prev.args = args[p]]
              ELSE prev
    /\ UNCHANGED <<counters, serial, schema>>

Goto(p, label) == pc' = [pc EXCEPT ![p] = label]

\* a caller starts a call with arguments a: SessionLocal() opens its session.
\* Procs are interchangeable call slots: a new call takes the lowest free one.
Begin(p, a, label) ==
    /\ pc[p] = "idle"
    /\ \A q \in Procs : q < p => pc[q] # "idle"
    /\ serial => \A q \in Procs : pc[q] = "idle"
    /\ ncalls < MaxCalls
    /\ ncalls' = ncalls + 1
    /\ args' = [args EXCEPT ![p] = a]
    /\ loc' = [loc EXCEPT ![p] = NoLoc]
    /\ ret' = [ret EXCEPT ![p] = NoRet]
    /\ Goto(p, label)
    /\ UNCHANGED <<tables, lock, nedits, mode>>

----------------------------------------------------------------------------
(* upsert_user(tg_id, username) *)

UpsertCall(p) ==
    \E tg \in TgIds, name \in Usernames :
        Begin(p, [op |-> "upsert", tg_id |-> tg, username |-> name], "up_select")

\* users.tg_id declared without unique=True
UniqueTgViolated_off(tg) == FALSE

\* the UNIQUE constraint on users.tg_id rejects the INSERT
UniqueTgViolated(tg) == \E u \in users : u.tg_id = tg

\* lines 10-24: the lookup and the branch taken on its result
UpsertSelect(p) ==
    /\ pc[p] = "up_select"
    /\ LET user == UserByTg(args[p].tg_id)
           username == args[p].username
       IN  IF user = NoRow
           THEN /\ loc' = [loc EXCEPT ![p].user = [id |-> 0, tg_id |-> args[p].tg_id, username |-> username]]
                /\ Goto(p, "up_insert")
                /\ UNCHANGED <<users, products, orders, order_items, lock, args, ret, counters, mode>>
           ELSE IF Truthy(username) /\ user.username # username
           THEN /\ loc' = [loc EXCEPT ![p].user = [user EXCEPT !.username = username]]
                /\ Goto(p, "up_update")
                /\ UNCHANGED <<users, products, orders, order_items, lock, args, ret, counters, mode>>
           ELSE /\ Return(p, "ok", user)
                /\ UNCHANGED tables

\* lines 12-14: INSERT and COMMIT; the store raises IntegrityError when a row
\* with this tg_id has been committed since the lookup
UpsertInsert(p) ==
    /\ pc[p] = "up_insert"
    /\ lock = 0
    /\ IF UniqueTgViolated(args[p].tg_id)
       THEN /\ Return(p, "IntegrityError(users.tg_id)", NoRow)
            /\ UNCHANGED tables
       ELSE LET row == [loc[p].user EXCEPT !.id = NextId(users)]
            IN  /\ users' = users \cup {row}
                /\ loc' = [loc EXCEPT ![p].user = row]
                /\ Goto(p, "up_refresh")
                /\ UNCHANGED <<products, orders, order_items, lock, args, ret, counters, mode>>

\* the UPDATE without its WHERE clause
UsersAfterUpdate_noWhere(p) == {[u EXCEPT !.username = loc[p].user.username] : u \in users}

\* UPDATE users SET username = ? WHERE users.id = ?
UsersAfterUpdate(p) ==
    {IF u.id = loc[p].user.id THEN [u EXCEPT !.username = loc[p].user.username] ELSE u : u \in users}

\* lines 20-21: the UPDATE and COMMIT
UpsertUpdate(p) ==
    /\ pc[p] = "up_update"
    /\ lock = 0
    /\ users' = UsersAfterUpdate(p)
    /\ Goto(p, "up_refresh")
    /\ UNCHANGED <<products, orders, order_items, lock, args, loc, ret, counters, mode>>

\* lines 15-16, 22-24: session.refresh(user) re-reads the row by primary key
UpsertRefresh(p) ==
    /\ pc[p] = "up_refresh"
    /\ Return(p, "ok", OneOrNone({u \in users : u.id = loc[p].user.id}))
    /\ UNCHANGED tables

----------------------------------------------------------------------------
(* create_order_for_user(tg_id, sku, qty) *)

CreateOrderCall(p) ==
    \E tg \in TgIds, sku \in Skus, qty \in Qtys :
        Begin(p, [op |-> "create_order", tg_id |-> tg, sku |-> sku, qty |-> qty], "co_user")

\* the clamp left out
NormalizeQty_id(qty) == qty

\* lines 22-23
NormalizeQty(qty) == IF qty < 1 THEN 1 ELSE qty

\* the lookup written as get-or-create: an unknown tg_id is registered
CreateOrderUser_register(p) ==
    /\ pc[p] = "co_user"
    /\ LET found == UserByTg(args[p].tg_id)
           user == IF found = NoRow
                   THEN [id |-> NextId(users), tg_id |-> args[p].tg_id, username |-> Null]
                   ELSE found
       IN  /\ users' = users \cup {user}
           /\ loc' = [loc EXCEPT ![p].user = user, ![p].qty = NormalizeQty(args[p].qty)]
           /\ Goto(p, "co_product")
           /\ UNCHANGED <<products, orders, order_items, lock, args, ret, counters, mode>>

\* the two lookups in the other order: the product is checked first
CreateOrderUser_productFirst(p) ==
    /\ pc[p] = "co_user"
    /\ IF ActiveProductBySku(args[p].sku) = NoRow
       THEN /\ Return(p, "ProductNotFound", NoRow)
            /\ UNCHANGED tables
       ELSE LET user == UserByTg(args[p].tg_id)
            IN  IF user = NoRow
                THEN /\ Return(p, "UserNotFound", NoRow)
                     /\ UNCHANGED tables
                ELSE /\ loc' = [loc EXCEPT ![p].user = user, ![p].qty = NormalizeQty(args[p].qty)]
                     /\ Goto(p, "co_product")
                     /\ UNCHANGED <<users, products, orders, order_items, lock, args, ret, counters, mode>>

\* lines 27-29: the user lookup; ValueError when the user is absent
CreateOrderUser(p) ==
    /\ pc[p] = "co_user"
    /\ LET user == UserByTg(args[p].tg_id)
       IN  IF user = NoRow
           THEN /\ Return(p, "UserNotFound", NoRow)
                /\ UNCHANGED tables
           ELSE /\ loc' = [loc EXCEPT ![p].user = user, ![p].qty = NormalizeQty(args[p].qty)]
                /\ Goto(p, "co_product")
                /\ UNCHANGED <<users, products, orders, order_items, lock, args, ret, counters, mode>>

\* lines 31-37: the active-product lookup; ValueError when there is none
CreateOrderProduct(p) ==
    /\ pc[p] = "co_product"
    /\ LET product == ActiveProductBySku(args[p].sku)
       IN  IF product = NoRow
           THEN /\ Return(p, "ProductNotFound", NoRow)
                /\ UNCHANGED tables
           ELSE /\ loc' = [loc EXCEPT ![p].product = product]
                /\ Goto(p, "co_flush_order")
                /\ UNCHANGED <<users, products, orders, order_items, lock, args, ret, counters, mode>>

\* the order created in another status than "new"
NewOrder_paid(p) == [id |-> NextId(orders), user_id |-> loc[p].user.id, status |-> "paid", total_cents |-> 0]

\* line 39
NewOrder(p) == [id |-> NextId(orders), user_id |-> loc[p].user.id, status |-> "new", total_cents |-> 0]

\* a session made with autocommit: the flushed row is committed at once
OrdersAfterFlush_autocommit(p) == orders \cup {NewOrder(p)}

\* sessionmaker(autocommit=False): a flush leaves the committed table as it is
OrdersAfterFlush(p) == orders

\* lines 39-41: INSERT the order inside the session's transaction, which takes
\* the store's write lock; the row is not committed yet
CreateOrderFlushOrder(p) ==
    /\ pc[p] = "co_flush_order"
    /\ lock = 0
    /\ lock' = p
    /\ loc' = [loc EXCEPT ![p].order = NewOrder(p)]
    /\ orders' = OrdersAfterFlush(p)
    /\ Goto(p, "co_flush_item")
    /\ UNCHANGED <<users, products, order_items, args, ret, counters, mode>>

\* the quantity the bot passes, whatever the argument
NewItem_qty1(p) ==
    [id |-> NextId(order_items), order_id |-> loc[p].order.id, product_id |-> loc[p].product.id,
     qty |-> 1, price_cents |-> loc[p].product.price_cents]

\* lines 43-48
NewItem(p) ==
    [id |-> NextId(order_items), order_id |-> loc[p].order.id, product_id |-> loc[p].product.id,
     qty |-> loc[p].qty, price_cents |-> loc[p].product.price_cents]

\* lines 43-50: INSERT the order item in the same transaction
CreateOrderFlushItem(p) ==
    /\ pc[p] = "co_flush_item"
    /\ loc' = [loc EXCEPT ![p].item = NewItem(p)]
    /\ Goto(p, "co_sum")
    /\ UNCHANGED <<users, products, orders, order_items, lock, args, ret, counters, mode>>

\* the line added to the session and not flushed: the SUM reads the table only
ItemsSeenBy_committed(p) == order_items

\* the order_items rows the transaction of p sees: the committed ones and its own
ItemsSeenBy(p) == order_items \cup (IF loc[p].item = NoRow THEN {} ELSE {loc[p].item})

\* the SUM without its filter on order_id
LineTotal_unfiltered(p) == SumLines(ItemsSeenBy(p))

\* lines 52-57: SUM(qty * price_cents) WHERE order_id = order.id; None counts as 0
LineTotal(p) == SumLines({i \in ItemsSeenBy(p) : i.order_id = loc[p].order.id})

CreateOrderSum(p) ==
    /\ pc[p] = "co_sum"
    /\ loc' = [loc EXCEPT ![p].order.total_cents = LineTotal(p)]
    /\ Goto(p, "co_commit")
    /\ UNCHANGED <<users, products, orders, order_items, lock, args, ret, counters, mode>>

\* the commit rewrites the price of the product's earlier lines
ItemsCommitted_reprice(p) ==
    {IF i.product_id = loc[p].item.product_id THEN [i EXCEPT !.price_cents = loc[p].item.price_cents] ELSE i : i \in order_items}
        \cup {loc[p].item}

\* the commit writes the order and loses its line
ItemsCommitted_lost(p) == order_items

\* the order_items table after the commit of p
ItemsCommitted(p) == order_items \cup {loc[p].item}

\* the order merged into an order the user already has
OrdersCommitted_merge(p) ==
    IF \E o \in orders : o.user_id = loc[p].order.user_id
    THEN {IF o.user_id = loc[p].order.user_id
          THEN [o EXCEPT !.total_cents = o.total_cents + loc[p].order.total_cents]
          ELSE o : o \in orders}
    ELSE orders \cup {loc[p].order}

\* the UPDATE of the total without its WHERE clause
OrdersCommitted_updateAll(p) ==
    {[o EXCEPT !.total_cents = loc[p].order.total_cents] : o \in orders} \cup {loc[p].order}

\* the orders table after the commit of p: its order, with the total set by
\* UPDATE orders SET total_cents = ? WHERE orders.id = ?
OrdersCommitted(p) == orders \cup {loc[p].order}

\* line 59: UPDATE of the total and COMMIT; order and item become visible together
CreateOrderCommit(p) ==
    /\ pc[p] = "co_commit"
    /\ lock = p
    /\ orders' = OrdersCommitted(p)
    /\ order_items' = ItemsCommitted(p)
    /\ lock' = 0
    /\ Goto(p, "co_refresh")
    /\ UNCHANGED <<users, products, args, loc, ret, counters, mode>>

\* lines 60-61: session.refresh(order) re-reads the row by primary key
CreateOrderRefresh(p) ==
    /\ pc[p] = "co_refresh"
    /\ Return(p, "ok", OneOrNone({o \in orders : o.id = loc[p].order.id}))
    /\ UNCHANGED tables

----------------------------------------------------------------------------
(* list_active_products(limit) *)

\* the query without its filter on is_active
ActiveProducts_all == products

\* line 12: WHERE products.is_active IS 1
ActiveProducts == {q \in products : q.is_active}

ListActiveCall(p) == \E limit \in Limits : Begin(p, [op |-> "list_active", limit |-> limit], "la_select")

\* lines 10-16: one SELECT; the rows are returned as they are in the store
ListActiveSelect(p) ==
    /\ pc[p] = "la_select"
    /\ Return(p, "ok", Limit(OrderById(ActiveProducts), args[p].limit))
    /\ UNCHANGED tables

----------------------------------------------------------------------------
(* list_orders_by_tg_id(tg_id, limit) *)

ListOrdersCall(p) ==
    \E tg \in TgIds, limit \in Limits :
        Begin(p, [op |-> "list_orders", tg_id |-> tg, limit |-> limit], "lo_user")

\* the lookup written as get-or-create: an unknown tg_id is registered
ListOrdersUser_register(p) ==
    /\ pc[p] = "lo_user"
    /\ LET user == UserByTg(args[p].tg_id)
       IN  IF user = NoRow
           THEN /\ users' = users \cup {[id |-> NextId(users), tg_id |-> args[p].tg_id, username |-> Null]}
                /\ Return(p, "ok", <<>>)
                /\ UNCHANGED <<products, orders, order_items>>
           ELSE /\ loc' = [loc EXCEPT ![p].user = user]
                /\ Goto(p, "lo_select")
                /\ UNCHANGED <<users, products, orders, order_items, lock, args, ret, counters, mode>>

\* lines 12-14: the user lookup; an unknown tg_id gives the empty list
ListOrdersUser(p) ==
    /\ pc[p] = "lo_user"
    /\ LET user == UserByTg(args[p].tg_id)
       IN  IF user = NoRow
           THEN /\ Return(p, "ok", <<>>)
                /\ UNCHANGED tables
           ELSE /\ loc' = [loc EXCEPT ![p].user = user]
                /\ Goto(p, "lo_select")
                /\ UNCHANGED <<users, products, orders, order_items, lock, args, ret, counters, mode>>

\* the query without its filter on user_id
OrdersOfUser_all(id) == orders

\* line 18: WHERE orders.user_id = ?
OrdersOfUser(id) == {o \in orders : o.user_id = id}

\* lines 16-22: the user's orders, newest first
ListOrdersSelect(p) ==
    /\ pc[p] = "lo_select"
    /\ Return(p, "ok", Limit(OrderByIdDesc(OrdersOfUser(loc[p].user.id)), args[p].limit))
    /\ UNCHANGED tables

----------------------------------------------------------------------------
(* POST /admin/products *)

\* the submitted forms: every sku and checkbox with a price that converts, each
\* price that is rejected once (for the sku outside the demo catalogue), and one
\* form with a blank field
AdminForms ==
    {f \in [op : {"admin"}, sku : Skus, price_str : PriceStrs, is_active : BOOLEAN] :
        (~f.price_str.valid \/ f.price_str.milli < 0) => (f.sku = "SKU-006" /\ f.is_active)}
        \cup {[op |-> "admin", sku |-> "", price_str |-> BadPrice, is_active |-> FALSE]}

AdminCall(p) == \E form \in AdminForms : Begin(p, form, "ad_exists")

\* Decimal.to_integral_value() of n/d under the default context (ROUND_HALF_EVEN)
ToIntegralValue(n, d) ==
    LET q == n \div d
        r == n % d
    IN  IF 2 * r < d THEN q ELSE IF 2 * r > d THEN q + 1 ELSE IF q % 2 = 0 THEN q ELSE q + 1

\* line 45: int((price * 100).to_integral_value()), price in thousandths
PriceCents(price) == ToIntegralValue(price.milli * 100, 1000)

\* products.sku declared without unique=True
UniqueSkuViolated_off(sku) == FALSE

\* the UNIQUE constraint on products.sku rejects the INSERT
UniqueSkuViolated(sku) == \E q \in products : q.sku = sku

\* lines 34-52: the checks before the insert, each ending the request with a flash
AdminExists(p) ==
    /\ pc[p] = "ad_exists"
    /\ LET a == args[p]
       IN  IF a.sku = ""
           THEN Return(p, "flash_blank", NoRow) /\ UNCHANGED tables
           ELSE IF ProductBySku(a.sku) # NoRow
           THEN Return(p, "flash_exists", NoRow) /\ UNCHANGED tables
           ELSE IF ~a.price_str.valid
           THEN Return(p, "flash_price", NoRow) /\ UNCHANGED tables
           ELSE IF PriceCents(a.price_str) < 0
           THEN Return(p, "flash_negative", NoRow) /\ UNCHANGED tables
           ELSE /\ loc' = [loc EXCEPT ![p].product =
                            [id |-> 0, sku |-> a.sku, price_cents |-> PriceCents(a.price_str), is_active |-> a.is_active]]
                /\ Goto(p, "ad_commit")
                /\ UNCHANGED <<users, products, orders, order_items, lock, args, ret, counters, mode>>

\* lines 54-62: INSERT and COMMIT; IntegrityError when the sku was committed
\* by another request since the check
AdminCommit(p) ==
    /\ pc[p] = "ad_commit"
    /\ lock = 0
    /\ IF UniqueSkuViolated(args[p].sku)
       THEN /\ Return(p, "IntegrityError(products.sku)", NoRow)
            /\ UNCHANGED tables
       ELSE LET row == [loc[p].product EXCEPT !.id = NextId(products)]
            IN  /\ products' = products \cup {row}
                /\ Return(p, "ok", row)
                /\ UNCHANGED <<users, orders, order_items>>

----------------------------------------------------------------------------
(* init_db(): Base.metadata.create_all(bind=engine), called when the web   *)
(* process and the bot process start.  create_all first asks the store,    *)
(* table by table, whether the table exists, then creates each table it    *)
(* found absent and that table's indexes, one DDL statement at a time.     *)

\* a process starts; unlike a repository call it is not limited in number, and
\* the web process and the bot process start independently
InitDbCall(p) ==
    /\ pc[p] = "idle"
    /\ ret[p] = NoRet
    /\ args' = [args EXCEPT ![p] = [op |-> "init_db"]]
    /\ Goto(p, "idb_check")
    /\ UNCHANGED <<tables, lock, loc, ret, counters, mode>>

\* the CREATE TABLE of t followed by the CREATE INDEX of each of its indexes
DdlOf(t) == <<t>> \o IndexesOf(t)

\* checkfirst=True: has_table() on the next table of the metadata; an absent
\* table is put on the list of things to create
InitDbCheck(p) ==
    /\ pc[p] = "idb_check"
    /\ LET t == TableNames[loc[p].checked + 1]
           ddl == IF t \in schema THEN loc[p].ddl ELSE loc[p].ddl \o DdlOf(t)
       IN  /\ loc' = [loc EXCEPT ![p].checked = loc[p].checked + 1, ![p].ddl = ddl]
           /\ Goto(p, IF loc[p].checked + 1 < Len(TableNames) THEN "idb_check"
                       ELSE IF ddl = <<>> THEN "idb_done" ELSE "idb_create")
    /\ UNCHANGED <<tables, lock, args, ret, counters, mode>>

\* CREATE TABLE / CREATE INDEX, without IF NOT EXISTS: the store raises
\* OperationalError when the object has been created since the check
InitDbCreate(p) ==
    /\ pc[p] = "idb_create"
    /\ lock = 0
    /\ LET stmt == Head(loc[p].ddl)
       IN  IF stmt \in schema
           THEN /\ Return(p, "OperationalError(already exists)", NoRow)
                /\ UNCHANGED tables
           ELSE /\ schema' = schema \cup {stmt}
                /\ loc' = [loc EXCEPT ![p].ddl = Tail(loc[p].ddl)]
                /\ Goto(p, IF Tail(loc[p].ddl) = <<>> THEN "idb_done" ELSE "idb_create")
                /\ UNCHANGED <<tables, lock, args, ret, counters, serial, prev>>

\* create_all returns
InitDbDone(p) ==
    /\ pc[p] = "idb_done"
    /\ Return(p, "ok", NoRow)
    /\ UNCHANGED tables

NextBoot ==
    \E p \in Procs :
        \/ InitDbCall(p)
        \/ InitDbCheck(p)
        \/ InitDbCreate(p)
        \/ InitDbDone(p)

----------------------------------------------------------------------------
(* The admin collaborator edits a product in place (price or active flag). *)

EditProduct ==
    /\ lock = 0
    /\ nedits < MaxEdits
    /\ nedits' = nedits + 1
    /\ \E q \in {r \in products : r.sku \in Skus} :
         \E new \in {[q EXCEPT !.price_cents = c] : c \in EditPrices} \cup {[q EXCEPT !.is_active = b] : b \in BOOLEAN} :
            /\ new # q
            /\ products' = (products \ {q}) \cup {new}
    /\ UNCHANGED <<users, orders, order_items, lock, pc, args, loc, ret, ncalls, mode>>

----------------------------------------------------------------------------
(* The store fails a statement (OperationalError: locked, unavailable, I/O). *)

StoreFail(p) ==
    /\ pc[p] # "idle"
    /\ Return(p, "OperationalError", NoRow)
    /\ UNCHANGED tables

----------------------------------------------------------------------------
Next ==
    \/ EditProduct
    \/ \E p \in Procs :
        \/ UpsertCall(p)
        \/ UpsertSelect(p)
        \/ UpsertInsert(p)
        \/ UpsertUpdate(p)
        \/ UpsertRefresh(p)
        \/ CreateOrderCall(p)
        \/ CreateOrderUser(p)
        \/ CreateOrderProduct(p)
        \/ CreateOrderFlushOrder(p)
        \/ CreateOrderFlushItem(p)
        \/ CreateOrderSum(p)
        \/ CreateOrderCommit(p)
        \/ CreateOrderRefresh(p)
        \/ ListActiveCall(p)
        \/ ListActiveSelect(p)
        \/ ListOrdersCall(p)
        \/ ListOrdersUser(p)
        \/ ListOrdersSelect(p)
        \/ AdminCall(p)
        \/ AdminExists(p)
        \/ AdminCommit(p)
        \/ StoreFail(p)

Spec == Init /\ [][Next]_vars

\* the statements of an upsert_user or create_order_for_user call running in
\* slot p: the thread of a call runs its statements one after the other, and a
\* statement the store keeps waiting ends with the store's timeout (StoreFail)
Statement(p) ==
    \/ UpsertSelect(p) \/ UpsertInsert(p) \/ UpsertUpdate(p) \/ UpsertRefresh(p)
    \/ CreateOrderUser(p) \/ CreateOrderProduct(p) \/ CreateOrderFlushOrder(p)
    \/ CreateOrderFlushItem(p) \/ CreateOrderSum(p) \/ CreateOrderCommit(p) \/ CreateOrderRefresh(p)
    \/ StoreFail(p)

\* the calls that write through a session of their own transaction
NextLive ==
    \E p \in Procs :
        \/ UpsertCall(p)
        \/ CreateOrderCall(p)
        \/ Statement(p)

\* concurrent upsert_user and create_order_for_user calls, every started call
\* being run on by its thread
SpecLive == Init /\ [][NextLive]_vars /\ \A p \in Procs : WF_vars(Statement(p))

\* the calls of the bot's /start and /buy handlers on a store that already
\* holds users and orders, the admin collaborator editing products meanwhile
NextOrders ==
    \/ EditProduct
    \/ \E p \in Procs :
        \/ UpsertCall(p)
        \/ CreateOrderCall(p)
        \/ Statement(p)

SpecOrders == InitStocked /\ [][NextOrders]_vars

SpecSerial == InitSerial /\ [][Next]_vars

\* concurrent callers on a store that already holds users and orders
SpecStocked == InitStocked /\ [][Next]_vars

\* the start of the processes on a store that may have no schema yet
SpecBoot == InitBoot /\ [][NextBoot]_vars

----------------------------------------------------------------------------
(* Properties. *)

LinesOf(o, items) == {i \in items : i.order_id = o.id}

\* C1: every committed order's total_cents equals the sum of qty * price_cents
\* over the committed order items whose order_id is that order, in every
\* reachable state.
C1_TotalEqualsLines == \A o \in orders : o.total_cents = SumLines(LinesOf(o, order_items))

\* beside the orders at 49900 a unit, a third order is committed for 2 units
\* at the price the product has been changed to
C1_Witness ==
    /\ Cardinality(orders) >= 3
    /\ \E o \in orders : o.total_cents = 99800
    /\ \E o \in orders : o.id = 3 /\ o.total_cents = 2 * 59900
    /\ \E i \in order_items : \E q \in products : q.id = i.product_id /\ q.price_cents # i.price_cents

\* C2: a committed order item stays in the table with the price_cents it was
\* committed with, across every step (price edits and further orders included).
C2_LinePriceFrozen ==
    [][\A i \in order_items : \E j \in order_items' : j.id = i.id /\ j.price_cents = i.price_cents]_vars

\* two lines of the same product carry different snapshots: the price was
\* edited between two orders of that product
C2_Witness ==
    \E i, j \in order_items : i.product_id = j.product_id /\ i.id < j.id /\ i.price_cents # j.price_cents

\* C3: an upsert whose INSERT meets a row committed by a concurrent first
\* contact does not receive the constraint failure: it returns the winner's row.
C3_RaceFallsBackToLookup ==
    [][\A p \in Procs :
         (/\ pc[p] = "up_insert"
          /\ \E u \in users : u.tg_id = args[p].tg_id
          /\ pc'[p] = "idle"
          /\ ret'[p].status # "OperationalError")
         => /\ ret'[p].status = "ok"
            /\ ret'[p].value \in users
            /\ ret'[p].value.tg_id = args[p].tg_id]_vars

\* C4: the users table holds at most one row per tg_id in every reachable state.
C4_OneRowPerTgId == \A u, v \in users : u.tg_id = v.tg_id => u = v

\* a first contact lost the race: its INSERT was rejected and the winner's row is there
C4_Witness ==
    \E p \in Procs :
        /\ ret[p].status = "IntegrityError(users.tg_id)"
        /\ users # {}

\* p takes a step of its call (every statement moves pc[p])
Steps(p) == pc'[p] # pc[p]

\* C5: under serial calls, an upsert that repeats the call that returned just
\* before it (same tg_id, same username, which returned a row) changes no
\* table at any of its steps and returns a row with the same id, the only row
\* with that tg_id.
C5_RepeatedUpsertIdempotent ==
    [][\A p \in Procs :
         (/\ pc[p] \in {"up_select", "up_insert", "up_update", "up_refresh"}
          /\ Steps(p)
          /\ prev.status = "ok"
          /\ prev.args = args[p])
         => /\ UNCHANGED tables
            /\ (pc'[p] = "idle" /\ ret'[p].status # "OperationalError")
                 => /\ ret'[p].status = "ok"
                    /\ ret'[p].value.id = prev.value.id
                    /\ {u \in users' : u.tg_id = args[p].tg_id} = {ret'[p].value}]_vars

\* the call that returned last is an upsert that repeated the one before it
C5_Witness ==
    /\ prev.again
    /\ prev.status = "ok"
    /\ prev.args.op = "upsert"
    /\ prev.args.username = "ann"

\* C6: a create_order call that ends with an error leaves no order row and no
\* order item row of that attempt in the committed tables.
C6_FailedCreateOrderLeavesNothing ==
    [][\A p \in Procs :
         (/\ pc[p] # "idle"
          /\ args[p].op = "create_order"
          /\ pc'[p] = "idle"
          /\ ret'[p].status # "ok")
         => /\ \A o \in orders' : o.id # loc[p].order.id
            /\ \A i \in order_items' : i.id # loc[p].item.id]_vars

\* C6, amended: a create_order call that ends with an error at any statement up
\* to and including its COMMIT leaves no order row and no order item row of that
\* attempt in the committed tables, and no statement of the call before the
\* successful COMMIT changes the two tables.
C6_FailureUpToCommitLeavesNothing ==
    [][\A p \in Procs :
         (/\ pc[p] \in {"co_user", "co_product", "co_flush_order", "co_flush_item", "co_sum", "co_commit"}
          /\ Steps(p)
          /\ pc'[p] # "co_refresh")
         => /\ UNCHANGED <<orders, order_items>>
            /\ \A o \in orders' : o.id # loc[p].order.id
            /\ \A i \in order_items' : i.id # loc[p].item.id]_vars

\* a create_order failed at its COMMIT, after both rows were flushed, and the
\* two tables are empty
C6_Witness ==
    \E p \in Procs :
        /\ ret[p].op = "create_order"
        /\ ret[p].status = "OperationalError"
        /\ ret[p].at = "co_commit"
        /\ orders = {} /\ order_items = {}

\* C7: create_order for a tg_id without a user row ends at the user lookup
\* with the user-not-found error (or the store's own failure of that lookup)
\* and changes no table: no order, no order item, no user row.
C7_UnknownUserFails ==
    [][\A p \in Procs :
         (/\ pc[p] = "co_user"
          /\ Steps(p)
          /\ \A u \in users : u.tg_id # args[p].tg_id)
         => /\ pc'[p] = "idle"
            /\ ret'[p].status \in {"UserNotFound", "OperationalError"}
            /\ UNCHANGED tables]_vars

\* a create_order ended with user-not-found and the tables are still empty of
\* users, orders and order items
C7_Witness ==
    \E p \in Procs :
        /\ ret[p].op = "create_order"
        /\ ret[p].status = "UserNotFound"
        /\ users = {} /\ orders = {} /\ order_items = {}

\* C8: create_order for a registered user whose sku matches no product, or only
\* an inactive one, ends at the product lookup with the product-not-found error
\* (or the store's own failure of that lookup) and changes no table.
C8_NoActiveProductFails ==
    [][\A p \in Procs :
         (/\ pc[p] = "co_product"
          /\ Steps(p)
          /\ \A q \in products : ~(q.sku = args[p].sku /\ q.is_active))
         => /\ pc'[p] = "idle"
            /\ ret'[p].status \in {"ProductNotFound", "OperationalError"}
            /\ UNCHANGED tables]_vars

\* SKU-001 has been deactivated: a create_order ended with product-not-found,
\* another one, of user 1 for SKU-001, is at its product lookup, and the orders
\* table holds what it held
C8_Witness ==
    /\ \E p, q \in Procs :
         /\ ret[p].op = "create_order" /\ ret[p].status = "ProductNotFound"
         /\ pc[q] = "co_product" /\ args[q].sku = "SKU-001" /\ loc[q].user.id = 1
    /\ \E r \in products : r.sku = "SKU-001" /\ ~r.is_active
    /\ Cardinality(orders) = 2

\* the quantity create_order is specified to store
Clamp(qty) == IF qty < 1 THEN 1 ELSE qty

\* C9: the COMMIT of a create_order adds exactly one order, with status "new"
\* and a fresh id, and exactly one order item for it, carrying the clamped qty
\* and the price read from the product in that call, the order's total being
\* qty * price; no other statement of the call changes the two tables; and the
\* call returns that committed order.
C9_SuccessCommitsOneOrderOneLine ==
    [][\A p \in Procs :
         /\ (pc[p] = "co_commit" /\ pc'[p] = "co_refresh")
              => \E o \in orders', i \in order_items' :
                    /\ orders' = orders \cup {o}
                    /\ order_items' = order_items \cup {i}
                    /\ \A x \in orders : x.id # o.id
                    /\ \A x \in order_items : x.id # i.id
                    /\ o.status = "new"
                    /\ i.order_id = o.id
                    /\ i.qty = Clamp(args[p].qty)
                    /\ i.price_cents = loc[p].product.price_cents
                    /\ o.total_cents = Clamp(args[p].qty) * loc[p].product.price_cents
         /\ (pc[p] # "idle" /\ args[p].op = "create_order" /\ Steps(p) /\ pc[p] # "co_commit")
              => UNCHANGED <<orders, order_items>>
         /\ (pc[p] = "co_refresh" /\ pc'[p] = "idle" /\ ret'[p].status = "ok")
              => /\ ret'[p].value \in orders
                 /\ ret'[p].value.id = loc[p].order.id
                 /\ ret'[p].value.status = "new"
                 /\ ret'[p].value.total_cents = Clamp(args[p].qty) * loc[p].product.price_cents]_vars

\* create_order returned a committed order of 99800: 2 units at 49900
C9_Witness ==
    \E p \in Procs :
        /\ ret[p].op = "create_order"
        /\ ret[p].status = "ok"
        /\ ret[p].value \in orders
        /\ ret[p].value.total_cents = 99800
        /\ \E i \in order_items : i.order_id = ret[p].value.id /\ i.qty = 2 /\ i.price_cents = 49900

\* C10: the order item a create_order commits has qty 1 and the order a total
\* of one unit price when the argument is below 1, and the argument itself as
\* qty when it is 1 or more, up to the largest quantity passed.
C10_QtyClampedBelowOne ==
    [][\A p \in Procs :
         (pc[p] = "co_commit" /\ pc'[p] = "co_refresh")
         => /\ order_items' # order_items
            /\ \A i \in order_items' \ order_items :
                 /\ args[p].qty < 1 => i.qty = 1
                 /\ args[p].qty >= 1 => i.qty = args[p].qty
            /\ \A o \in orders' \ orders :
                 args[p].qty < 1 => o.total_cents = loc[p].product.price_cents]_vars

\* a create_order called with qty -5 has committed its line with qty 1, beside
\* a line committed with the largest quantity
C10_Witness ==
    \E p \in Procs :
        /\ pc[p] = "co_refresh"
        /\ args[p].qty = -5
        /\ \E i \in order_items : i.order_id = loc[p].order.id /\ i.qty = 1
        /\ \E j \in order_items : j.qty = MaxQty

\* C11: list_active_products(limit) returns only active products, in strictly
\* ascending id order, at most limit of them: all the active products when
\* there are no more than limit, and otherwise exactly the limit active
\* products with the lowest ids.
C11_ListActiveLowestIds ==
    [][\A p \in Procs :
         (pc[p] = "la_select" /\ pc'[p] = "idle" /\ ret'[p].status = "ok")
         => LET r == ret'[p].value
                n == args[p].limit
                active == {q \in products : q.is_active}
                got == {r[k] : k \in 1 .. Len(r)}
            IN  /\ got \subseteq active
                /\ \A k \in 1 .. Len(r) - 1 : r[k].id < r[k + 1].id
                /\ Len(r) <= n
                /\ Cardinality(active) <= n => got = active
                /\ Cardinality(active) > n
                     => /\ Len(r) = n
                        /\ \A q \in active \ got : \A g \in got : g.id < q.id]_vars

\* list_active_products(1) returned the product of id 2 alone: the product of
\* id 1 has been deactivated and four active products remain
C11_Witness ==
    \E p \in Procs :
        /\ ret[p].op = "list_active"
        /\ ret[p].status = "ok"
        /\ Len(ret[p].value) = 1
        /\ ret[p].value[1].id = 2
        /\ \E q \in products : q.id = 1 /\ ~q.is_active
        /\ Cardinality({q \in products : q.is_active}) = 4

\* C12: list_orders_by_tg_id(tg_id, limit) returns orders of the user with
\* that tg_id only, in strictly descending id order, at most limit of them:
\* all of the user's orders when there are no more than limit, otherwise the
\* limit orders with the highest ids; and it returns the empty list, without
\* an error of its own, when the tg_id has no user row or the user no order.
C12_ListOrdersNewestFirst ==
    [][\A p \in Procs :
         /\ (pc[p] = "lo_user" /\ Steps(p) /\ \A u \in users : u.tg_id # args[p].tg_id)
              => /\ pc'[p] = "idle"
                 /\ ret'[p].status \in {"ok", "OperationalError"}
                 /\ ret'[p].status = "ok" => ret'[p].value = <<>>
         /\ (pc[p] = "lo_select" /\ Steps(p))
              => /\ pc'[p] = "idle"
                 /\ ret'[p].status \in {"ok", "OperationalError"}
                 /\ ret'[p].status = "ok"
                      => LET r == ret'[p].value
                             n == args[p].limit
                             owned == {o \in orders : \E u \in users : u.tg_id = args[p].tg_id /\ o.user_id = u.id}
                             got == {r[k] : k \in 1 .. Len(r)}
                         IN  /\ got \subseteq owned
                             /\ \A k \in 1 .. Len(r) - 1 : r[k].id > r[k + 1].id
                             /\ Len(r) <= n
                             /\ Cardinality(owned) <= n => got = owned
                             /\ Cardinality(owned) > n
                                  => /\ Len(r) = n
                                     /\ \A o \in owned \ got : \A g \in got : g.id > o.id]_vars

\* list_orders_by_tg_id(41, 1) returned the newer of the user's two orders
\* (ids 3 and 1), the order of id 2 being another user's
C12_Witness ==
    \E p \in Procs :
        /\ ret[p].op = "list_orders"
        /\ ret[p].status = "ok"
        /\ Len(ret[p].value) = 1
        /\ ret[p].value[1].id = 3
        /\ ret[p].value[1].user_id = 1
        /\ {o.id : o \in {x \in orders : x.user_id = 1}} = {1, 3}
        /\ \E o \in orders : o.id = 2 /\ o.user_id = 2

\* C13: init_db creates every table that is absent and changes nothing when
\* the tables exist, and init_db calls of two processes running at the same
\* time all end without an error, with the schema complete.
C13_ConcurrentInitDbSucceeds ==
    [][\A p \in Procs :
         /\ (pc[p] \in {"idb_check", "idb_create", "idb_done"} /\ pc'[p] = "idle")
              => /\ ret'[p].status = "ok"
                 /\ schema' = SchemaObjects
         /\ schema = SchemaObjects => schema' = schema]_vars

UpsertLabels == {"up_select", "up_insert", "up_update", "up_refresh"}

CreateOrderLabels == {"co_user", "co_product", "co_flush_order", "co_flush_item", "co_sum", "co_commit", "co_refresh"}

\* C14: every upsert_user and create_order_for_user call that has started
\* ends; when it ends, by a return or by any exception, its session is closed
\* (it holds no object and no write lock of the store); and the rows its
\* transaction wrote are then all committed (the COMMIT was passed) or all
\* absent from the tables (it was not).
C14_CallsEndWithSessionClosed ==
    /\ \A p \in Procs : (pc[p] \in UpsertLabels \cup CreateOrderLabels) ~> (pc[p] = "idle")
    /\ [][\A p \in Procs :
            (pc[p] \in UpsertLabels \cup CreateOrderLabels /\ pc'[p] = "idle")
            => /\ lock' # p
               /\ loc'[p] = NoLoc
               /\ pc[p] \in {"co_user", "co_product", "co_flush_order", "co_flush_item", "co_sum", "co_commit"}
                    => /\ \A o \in orders' : o.id # loc[p].order.id
                       /\ \A i \in order_items' : i.id # loc[p].item.id
               /\ pc[p] = "co_refresh"
                    => /\ loc[p].order \in orders'
                       /\ loc[p].item \in order_items'
               /\ pc[p] \in {"up_select", "up_insert", "up_update"}
                    => (ret'[p].status # "ok" => users' = users)
               /\ pc[p] = "up_refresh"
                    => \E u \in users' : u.id = loc[p].user.id]_vars

\* a create_order_for_user that held the write lock with both rows flushed
\* has ended with an error, and the lock is free and the tables are empty
C14_Witness ==
    \E p \in Procs :
        /\ ret[p].op = "create_order"
        /\ ret[p].status = "OperationalError"
        /\ ret[p].at = "co_sum"
        /\ pc[p] = "idle"
        /\ lock = 0
        /\ loc[p] = NoLoc
        /\ orders = {} /\ order_items = {}

\* the labels of create_order_for_user before its COMMIT has succeeded
BeforeCommit == {"co_user", "co_product", "co_flush_order", "co_flush_item", "co_sum", "co_commit"}

\* what a reader must find of an order o in the order items I: its line
\* written and its total equal to its lines
Settled(o, I) == LinesOf(o, I) # {} /\ o.total_cents = SumLines(LinesOf(o, I))

\* C15: a reader never observes an intermediate state of a create_order: each
\* order list_orders_by_tg_id returns, and each order in the committed table
\* that a direct read goes to, has its line and a total equal to its lines and
\* is not the flushed, uncommitted row of a call in progress; and no row of a
\* call that ends with an error is in the committed tables.
C15_ReadersSeeNoIntermediateState ==
    [][/\ \A o \in orders' :
           /\ Settled(o, order_items')
           /\ \A q \in Procs : pc'[q] \in BeforeCommit => o.id # loc'[q].order.id
       /\ \A p \in Procs :
         /\ (pc[p] = "lo_select" /\ pc'[p] = "idle" /\ ret'[p].status = "ok")
              => \A k \in 1 .. Len(ret'[p].value) :
                    /\ Settled(ret'[p].value[k], order_items)
                    /\ \A q \in Procs : pc[q] \in BeforeCommit => ret'[p].value[k].id # loc[q].order.id
         /\ (pc[p] \in CreateOrderLabels /\ pc'[p] = "idle" /\ ret'[p].status # "ok")
              => /\ \A o \in orders' : o.id # loc[p].order.id
                 /\ \A i \in order_items' : i.id # loc[p].item.id]_vars

\* C15, amended: the same, the rows that are never visible being those of a
\* call that ends with an error at a statement up to and including its COMMIT.
C15_ReadersSeeOnlyCommittedOrders ==
    [][/\ \A o \in orders' :
           /\ Settled(o, order_items')
           /\ \A q \in Procs : pc'[q] \in BeforeCommit => o.id # loc'[q].order.id
       /\ \A p \in Procs :
         /\ (pc[p] = "lo_select" /\ pc'[p] = "idle" /\ ret'[p].status = "ok")
              => \A k \in 1 .. Len(ret'[p].value) :
                    /\ Settled(ret'[p].value[k], order_items)
                    /\ \A q \in Procs : pc[q] \in BeforeCommit => ret'[p].value[k].id # loc[q].order.id
         /\ (pc[p] \in BeforeCommit /\ pc'[p] = "idle" /\ ret'[p].status # "ok")
              => /\ \A o \in orders' : o.id # loc[p].order.id
                 /\ \A i \in order_items' : i.id # loc[p].item.id]_vars

\* list_orders_by_tg_id is at its SELECT on the orders of a user while a
\* create_order_for_user of that user holds its order and its line flushed,
\* the total computed, and not committed
C15_Witness ==
    \E p, q \in Procs :
        /\ pc[p] = "lo_select"
        /\ pc[q] = "co_commit"
        /\ loc[p].user.id = loc[q].user.id
        /\ loc[q].order.total_cents > 0
        /\ \E o \in orders : o.user_id = loc[p].user.id

\* C16: the SUM of create_order_for_user gives the order the total of exactly
\* the line the same call has flushed for it, qty * price_cents of that line:
\* the line is there (flushed, of this order), and the lines of other orders,
\* committed before or by calls running at the same time, are not counted.
C16_SumSeesOwnLineOnly ==
    [][\A p \in Procs :
         (pc[p] = "co_sum" /\ pc'[p] = "co_commit")
         => /\ loc[p].item # NoRow
            /\ loc[p].item.order_id = loc[p].order.id
            /\ \A i \in order_items : i.order_id # loc[p].order.id
            /\ loc'[p].order.total_cents = loc[p].item.qty * loc[p].item.price_cents]_vars

\* a create_order_for_user has computed the total of its own line alone while
\* the table holds the line of another order, whose call is still running
C16_Witness ==
    \E p, q \in Procs :
        /\ pc[p] = "co_commit"
        /\ pc[q] = "co_refresh"
        /\ order_items # {}
        /\ loc[p].order.total_cents = loc[p].item.qty * loc[p].item.price_cents
        /\ loc[p].order.total_cents # SumLines(order_items \cup {loc[p].item})

\* C17: the price_cents of the line a create_order_for_user commits is the
\* price its own product lookup read from the store: the lookup returns the
\* product row as committed at that moment, any earlier price change
\* included, and the line carries that price.
C17_SnapshotIsPriceAtCall ==
    [][\A p \in Procs :
         /\ (pc[p] = "co_product" /\ pc'[p] = "co_flush_order")
              => \E q \in products :
                    /\ q.sku = args[p].sku
                    /\ q.is_active
                    /\ loc'[p].product.id = q.id
                    /\ loc'[p].product.price_cents = q.price_cents
         /\ (pc[p] \in {"co_flush_order", "co_flush_item", "co_sum"} /\ Steps(p) /\ pc'[p] # "idle")
              => loc'[p].product = loc[p].product
         /\ (pc[p] = "co_commit" /\ pc'[p] = "co_refresh")
              => \A i \in order_items' \ order_items :
                    /\ i.product_id = loc[p].product.id
                    /\ i.price_cents = loc[p].product.price_cents]_vars

\* after a line of a product was committed at 49900 and the product's price
\* changed, a later call has committed a line of it at the new price
C17_Witness ==
    \E i, j \in order_items : \E q \in products :
        /\ i.id < j.id
        /\ i.product_id = q.id /\ j.product_id = q.id
        /\ i.price_cents = 49900
        /\ j.price_cents = q.price_cents
        /\ q.price_cents \in EditPrices

\* C18: upsert_user(tg_id, username) that finds the user: when username is
\* non-empty and differs from the stored one it goes on to write that username
\* into that row (the UPDATE changes nothing else), and otherwise (username
\* None, empty or equal) it writes nothing and returns the row it found.  When
\* it finds no user it inserts one row with this tg_id and this username, None
\* included.  After a write it returns the row as the table then has it.
C18_UpsertNameRules ==
    [][\A p \in Procs :
         /\ (pc[p] = "up_select" /\ Steps(p))
              => /\ users' = users
                 /\ \A u \in users :
                      u.tg_id = args[p].tg_id
                      => IF args[p].username \notin {Null, ""} /\ args[p].username # u.username
                         THEN pc'[p] = "up_update" \/ ret'[p].status = "OperationalError"
                         ELSE /\ pc'[p] = "idle"
                              /\ ret'[p].status \in {"ok", "OperationalError"}
                              /\ ret'[p].status = "ok" => ret'[p].value = u
                 /\ (\A u \in users : u.tg_id # args[p].tg_id)
                      => pc'[p] = "up_insert" \/ ret'[p].status = "OperationalError"
         /\ (pc[p] = "up_update" /\ pc'[p] = "up_refresh")
              => /\ \E u \in users :
                      /\ u.tg_id = args[p].tg_id
                      /\ users' = (users \ {u}) \cup {[u EXCEPT !.username = args[p].username]}
         /\ (pc[p] = "up_insert" /\ pc'[p] = "up_refresh")
              => \E u \in users' :
                      /\ users' = users \cup {u}
                      /\ \A v \in users : v.id # u.id /\ v.tg_id # u.tg_id
                      /\ u.tg_id = args[p].tg_id
                      /\ u.username = args[p].username
         /\ (pc[p] = "up_refresh" /\ pc'[p] = "idle" /\ ret'[p].status = "ok")
              => /\ ret'[p].value \in users'
                 /\ ret'[p].value.tg_id = args[p].tg_id]_vars

\* an upsert returned the row it created with the empty username, and a later
\* upsert of the same user returned that row with its username updated
C18_Witness ==
    \E p, q \in Procs :
        /\ ret[p].op = "upsert" /\ ret[p].status = "ok" /\ ret[p].at = "up_refresh"
        /\ ret[q].op = "upsert" /\ ret[q].status = "ok" /\ ret[q].at = "up_refresh"
        /\ ret[p].value.id = ret[q].value.id
        /\ ret[p].value.username = ""
        /\ ret[q].value.username = "ann"
        /\ ret[q].value \in users

\* C19: no step of any call removes a user row or changes the id or the tg_id
\* of one; a step of upsert_user(tg_id, ...) leaves every row of another tg_id
\* as it is; and the steps of every other call leave the users table as it is.
C19_UsersOnlyRenamed ==
    [][/\ \A u \in users : \E v \in users' : v.id = u.id /\ v.tg_id = u.tg_id
       /\ \A p \in Procs :
            /\ (pc[p] \in UpsertLabels /\ Steps(p))
                 => \A u \in users : u.tg_id # args[p].tg_id => u \in users'
            /\ (pc[p] \notin UpsertLabels \cup {"idle"} /\ Steps(p))
                 => users' = users]_vars

\* the user of id 3 was created with the empty username and later renamed by
\* an upsert, and the users of ids 1 and 2, of other tg_ids, are in the table
\* as they were
C19_Witness ==
    \E p, q \in Procs :
        /\ ret[p].op = "upsert" /\ ret[p].status = "ok" /\ ret[p].at = "up_refresh"
        /\ ret[q].op = "upsert" /\ ret[q].status = "ok" /\ ret[q].at = "up_refresh"
        /\ ret[p].value.id = 3 /\ ret[p].value.username = ""
        /\ ret[q].value.id = 3 /\ ret[q].value.username = "ann"
        /\ [id |-> 1, tg_id |-> 41, username |-> "ann"] \in users
        /\ \E u \in users : u.id = 2 /\ u.tg_id # ret[q].value.tg_id

\* C20: every committed order stays in the orders table, with the same
\* user_id, status and total_cents, and keeps exactly the same order items,
\* across every step of every call (upsert_user, create_order_for_user of any
\* user, the list queries, the admin product creation) and every product edit.
C20_CommittedOrdersImmutable ==
    [][\A o \in orders :
         /\ o \in orders'
         /\ LinesOf(o, order_items') = LinesOf(o, order_items)]_vars

\* the two orders the store started with are unchanged after a third order was
\* committed, the ordered product was edited and a product was added by the admin
C20_Witness ==
    /\ \A o \in orders : o.id \in {1, 2} => o.total_cents = o.id * 49900 /\ o.user_id = o.id
    /\ {o.id : o \in orders} = {1, 2, 3}
    /\ {i.order_id : i \in order_items} = {1, 2, 3}
    /\ \E q \in products : q.id = 6
    /\ \E q \in products : q.id = 1 /\ q \notin DemoProducts

\* C21: every order in the orders table has status "new" in every reachable
\* state, the order create_order_for_user returns included, and no step of any
\* call or product edit changes the status of an order.
C21_OrdersStayNew ==
    /\ [](/\ \A o \in orders : o.status = "new"
          /\ \A p \in Procs :
               (ret[p].op = "create_order" /\ ret[p].status = "ok") => ret[p].value.status = "new")
    /\ [][\A o \in orders : \E x \in orders' : x.id = o.id /\ x.status = o.status]_vars

\* create_order_for_user returned the order of id 3 with status "new", and it
\* is in the table beside the two orders the store started with
C21_Witness ==
    \E p \in Procs :
        /\ ret[p].op = "create_order"
        /\ ret[p].status = "ok"
        /\ ret[p].value.id = 3
        /\ ret[p].value.status = "new"
        /\ ret[p].value \in orders
        /\ Cardinality(orders) = 3

AdminLabels == {"ad_exists", "ad_commit"}

RoundHalfUp(n, d) == IF n >= 0 THEN (2 * n + d) \div (2 * d) ELSE 0 - ((2 * (0 - n) + d) \div (2 * d))

\* C23: an admin request that passes the blank and sku checks converts its
\* price to price * 100 rounded half-up (0.025 gives 3): it ends without
\* creating a product when the price is unparsable or the result is negative,
\* and otherwise goes on to insert the product with that result as price_cents.
C23_PriceRoundedHalfUp ==
    [][\A p \in Procs :
         (/\ pc[p] = "ad_exists"
          /\ Steps(p)
          /\ args[p].sku # ""
          /\ \A q \in products : q.sku # args[p].sku
          /\ ret'[p].status # "OperationalError")
         => LET price == args[p].price_str
                cents == RoundHalfUp(price.milli * 100, 1000)
            IN  /\ products' = products
                /\ IF ~price.valid \/ cents < 0
                   THEN pc'[p] = "idle" /\ ret'[p].status \in {"flash_price", "flash_negative"}
                   ELSE pc'[p] = "ad_commit" /\ loc'[p].product.price_cents = cents]_vars

\* C24: the step that sets a product's is_active to false keeps the product
\* row and leaves the users, orders and order items tables as they are; from
\* then on list_active_products returns no inactive product, a
\* create_order_for_user whose sku is that of an inactive product ends at the
\* product lookup with product-not-found and changes no table, and
\* list_orders_by_tg_id still returns the user's orders of that product, as
\* they are in the table, up to its limit.
C24_DeactivationHidesKeepsHistory ==
    [][/\ \A q \in products :
            (q.is_active /\ q \notin products')
            => /\ \E r \in products' : r.id = q.id /\ r.sku = q.sku
               /\ UNCHANGED <<users, orders, order_items>>
       /\ \A p \in Procs :
            /\ (pc[p] = "la_select" /\ pc'[p] = "idle" /\ ret'[p].status = "ok")
                 => \A k \in 1 .. Len(ret'[p].value) :
                       \A q \in products : ~q.is_active => ret'[p].value[k].id # q.id
            /\ (pc[p] = "co_product" /\ Steps(p) /\ \E q \in products : q.sku = args[p].sku /\ ~q.is_active)
                 => /\ pc'[p] = "idle"
                    /\ ret'[p].status \in {"ProductNotFound", "OperationalError"}
                    /\ UNCHANGED tables
            /\ (pc[p] = "lo_select" /\ pc'[p] = "idle" /\ ret'[p].status = "ok")
                 => LET r == ret'[p].value
                        got == {r[k] : k \in 1 .. Len(r)}
                        hidden == {o \in orders :
                                     /\ \E u \in users : u.tg_id = args[p].tg_id /\ o.user_id = u.id
                                     /\ \E i \in order_items, q \in products :
                                           i.order_id = o.id /\ i.product_id = q.id /\ ~q.is_active}
                    IN  \A o \in hidden :
                           \/ o \in got /\ o.total_cents = SumLines(LinesOf(o, order_items))
                           \/ Len(r) = args[p].limit /\ \A g \in got : g.id > o.id]_vars

\* the product of id 1 has been deactivated, the order of id 1 and its line of
\* that product are in the store as before, and a list_orders_by_tg_id of the
\* order's user and a create_order_for_user of the product's sku are running
C24_Witness ==
    \E p, q \in Procs :
        /\ \E r \in products : r.id = 1 /\ r.sku = "SKU-001" /\ ~r.is_active
        /\ [id |-> 1, user_id |-> 1, status |-> "new", total_cents |-> 49900] \in orders
        /\ [id |-> 1, order_id |-> 1, product_id |-> 1, qty |-> 1, price_cents |-> 49900] \in order_items
        /\ pc[p] = "lo_select" /\ loc[p].user.id = 1
        /\ pc[q] = "co_product" /\ args[q].sku = "SKU-001"

ListLabels == {"la_select", "lo_user", "lo_select"}

\* C25: no step of list_active_products or list_orders_by_tg_id, from the
\* start of the call to its return or failure, changes the users, products,
\* orders or order items table, for every limit and every tg_id, registered
\* or not.
C25_ListQueriesArePureReads ==
    [][\A p \in Procs :
         ((pc[p] \in ListLabels \/ pc'[p] \in ListLabels) /\ Steps(p)) => UNCHANGED tables]_vars

\* list_orders_by_tg_id of a tg_id without a user row returned the empty list
\* and list_active_products(3) returned three products, and the four tables
\* hold what the store started with
C25_Witness ==
    \E p, q \in Procs :
        /\ ret[p].op = "list_orders" /\ ret[p].status = "ok" /\ ret[p].at = "lo_user" /\ ret[p].value = <<>>
        /\ ret[q].op = "list_active" /\ ret[q].status = "ok" /\ Len(ret[q].value) = 3
        /\ Cardinality(users) = 2 /\ \A u \in users : u.tg_id # 42
        /\ products = DemoProducts
        /\ Cardinality(orders) = 2
        /\ Cardinality(order_items) = 2

\* C26: in every reachable state of the committed tables, every order item's
\* order_id is the id of an order and its product_id the id of a product, every
\* order's user_id is the id of a user, and every order has exactly one order
\* item.
C26_ReferencesResolve ==
    /\ \A i \in order_items :
         /\ \E o \in orders : o.id = i.order_id
         /\ \E q \in products : q.id = i.product_id
    /\ \A o \in orders :
         /\ \E u \in users : u.id = o.user_id
         /\ Cardinality(LinesOf(o, order_items)) = 1

\* a third order is committed with its one line, the line's product has been
\* edited since, and another create_order_for_user holds its rows flushed
C26_Witness ==
    /\ Cardinality(orders) = 3
    /\ Cardinality(order_items) = 3
    /\ \E q \in products : q \notin DemoProducts /\ \E i \in order_items : i.product_id = q.id
    /\ \E p \in Procs : pc[p] = "co_commit"

\* C27: the order a create_order_for_user(tg_id, sku, qty) commits has the
\* user_id of the user with that tg_id and its item the product_id of the
\* product with that sku; every order list_orders_by_tg_id(tg_id, limit)
\* returns is an order of the table whose user_id is that of the user with that
\* tg_id; and no step changes the user_id of an order or the id or tg_id of a
\* user, ids and tg_ids being unique: so an order created for one tg_id is
\* never returned for another.
C27_OrdersBelongToCaller ==
    [][/\ \A u, v \in users' : (u.id = v.id \/ u.tg_id = v.tg_id) => u = v
       /\ \A u \in users : \E v \in users' : v.id = u.id /\ v.tg_id = u.tg_id
       /\ \A o \in orders : \E x \in orders' : x.id = o.id /\ x.user_id = o.user_id
       /\ \A p \in Procs :
            /\ (pc[p] = "co_commit" /\ pc'[p] = "co_refresh")
                 => /\ orders' # orders
                    /\ \A o \in orders' \ orders :
                          \E u \in users : u.tg_id = args[p].tg_id /\ o.user_id = u.id
                    /\ \A i \in order_items' \ order_items :
                          \E q \in products : q.sku = args[p].sku /\ i.product_id = q.id
            /\ (pc[p] = "lo_select" /\ pc'[p] = "idle" /\ ret'[p].status = "ok")
                 => \A k \in 1 .. Len(ret'[p].value) :
                       /\ ret'[p].value[k] \in orders
                       /\ \E u \in users : u.tg_id = args[p].tg_id /\ ret'[p].value[k].user_id = u.id]_vars

\* list_orders_by_tg_id(41, 3) is at its SELECT while the table holds an order
\* a create_order_for_user has just returned for the user of tg_id 41 and,
\* between that order and the user's first one, the order of another tg_id
C27_Witness ==
    \E p, q \in Procs :
        /\ pc[p] = "lo_select" /\ args[p].tg_id = 41 /\ args[p].limit = 3
        /\ ret[q].op = "create_order" /\ ret[q].status = "ok"
        /\ ret[q].value \in orders
        /\ ret[q].value.id = 3
        /\ ret[q].value.user_id = loc[p].user.id
        /\ \E o \in orders, u \in users : o.id = 2 /\ o.user_id = u.id /\ u.tg_id # 41

\* C28: a create_order_for_user whose tg_id has no user row and whose sku
\* matches no active product ends at the user lookup with the user-not-found
\* error (or the store's own failure of that lookup), never with
\* product-not-found; a call that fails at the product lookup ends with
\* product-not-found, a different error.
C28_UserCheckedBeforeProduct ==
    [][\A p \in Procs :
         /\ (/\ pc[p] = "co_user"
             /\ Steps(p)
             /\ \A u \in users : u.tg_id # args[p].tg_id
             /\ \A q \in products : ~(q.sku = args[p].sku /\ q.is_active))
              => /\ pc'[p] = "idle"
                 /\ ret'[p].at = "co_user"
                 /\ ret'[p].status \in {"UserNotFound", "OperationalError"}
         /\ (pc[p] = "co_product" /\ pc'[p] = "idle" /\ ret'[p].status # "OperationalError")
              => /\ ret'[p].status = "ProductNotFound"
                 /\ \E u \in users : u.tg_id = args[p].tg_id]_vars

\* a create_order_for_user ended with user-not-found on a store that has
\* neither a user nor a product
C28_Witness ==
    \E p \in Procs :
        /\ ret[p].op = "create_order"
        /\ ret[p].status = "UserNotFound"
        /\ ret[p].at = "co_user"
        /\ users = {}
        /\ products = {}

\* C29: no step of a create_order_for_user call, from its start to its return
\* or failure, changes the users table or the products table.
C29_CreateOrderLeavesUsersProducts ==
    [][\A p \in Procs :
         ((pc[p] \in CreateOrderLabels \/ pc'[p] = "co_user") /\ Steps(p))
         => users' = users /\ products' = products]_vars

\* one create_order_for_user returned its order and another ended with
\* user-not-found, and the store holds the two users it started with and the
\* demo catalogue as seeded
C29_Witness ==
    \E p, q \in Procs :
        /\ ret[p].op = "create_order" /\ ret[p].status = "ok" /\ ret[p].value \in orders
        /\ ret[q].op = "create_order" /\ ret[q].status = "UserNotFound"
        /\ Cardinality(users) = 2
        /\ \A u \in users : u.tg_id # 42
        /\ products = DemoProducts

\* C30: the COMMIT of every create_order_for_user, a call that repeats the
\* arguments of an earlier or concurrent call included, keeps every order and
\* order item there is and adds one order and one order item of that order,
\* with ids no existing row has; no other step of the call changes the two
\* tables; and the order a call returns has an id that no other call has
\* returned.
C30_EveryCallAddsAnOrder ==
    [][\A p \in Procs :
         /\ (pc[p] = "co_commit" /\ pc'[p] = "co_refresh")
              => /\ orders \subseteq orders'
                 /\ order_items \subseteq order_items'
                 /\ Cardinality(orders') = Cardinality(orders) + 1
                 /\ Cardinality(order_items') = Cardinality(order_items) + 1
                 /\ \A o \in orders' \ orders :
                      /\ \A x \in orders : x.id # o.id
                      /\ \A i \in order_items' \ order_items :
                           /\ i.order_id = o.id
                           /\ \A y \in order_items : y.id # i.id
         /\ (pc[p] \in CreateOrderLabels /\ Steps(p) /\ pc'[p] # "co_refresh")
              => UNCHANGED <<orders, order_items>>
         /\ (pc[p] = "co_refresh" /\ pc'[p] = "idle" /\ ret'[p].status = "ok")
              => \A q \in Procs \ {p} :
                    (ret[q].op = "create_order" /\ ret[q].status = "ok") => ret[q].value.id # ret'[p].value.id]_vars

\* two create_order_for_user calls with the same tg_id, sku and qty, running at
\* the same time, have both committed: two orders with different ids beside
\* the two the store started with
C30_Witness ==
    /\ pc[1] = "co_refresh" /\ pc[2] = "co_refresh"
    /\ args[1] = args[2]
    /\ loc[1].order.id # loc[2].order.id
    /\ \E o1, o2 \in orders : o1.id = loc[1].order.id /\ o2.id = loc[2].order.id
    /\ Cardinality(orders) = 4
    /\ Cardinality(order_items) = 4

====
